---- MODULE Spec2Model ----
(***************************************************************************)
(* Model of lip_sync/main.py: main() runs run_rhubarb, an assertion,       *)
(* run_blink and generate_video in sequence.  Time is counted in ticks:    *)
(* one video frame (1/24 s) is SubFrame ticks, so every duration of the    *)
(* program is an integer number of ticks.                                  *)
(***************************************************************************)
EXTENDS Integers, Sequences, FiniteSets, TLC

VARIABLES
    entry,          \* the function called from outside: "main", "run_rhubarb", "run_blink"
    pc,             \* position in the program
    args_audio,     \* args.audio, a string (sequence of characters)
    audio,          \* the local `audio` of run_rhubarb
    files,          \* the files written so far: <<"wav", path>>, <<"video", "output">>
    converted,      \* the ffmpeg transcodes done: <<input path, output path>>
    rhubarb_calls,  \* the paths the aligner was invoked on, in order
    exit_code,      \* exit status of the aligner process, -1 before it ran
    sync,           \* result.stdout: a sequence of rows, each a sequence of fields
    frames,         \* run_rhubarb's `frames`
    chunks,         \* run_rhubarb's `chunks`
    lips,           \* run_rhubarb's `lips` dict
    lip_chunks,     \* main's lip_chunks: Unset, None or Some(list)
    blink,          \* args.blink: "None" or the path of the blink file
    audio_duration, \* the duration of the audio file, as ffmpeg.probe reports it
    min_wait,
    max_wait,
    duration,       \* run_blink's `duration`
    wait,           \* run_blink's `wait`
    draws,          \* number of calls of random.uniform
    bchunks,        \* run_blink's `chunks`
    blinks,         \* run_blink's `blinks` dict
    blink_chunks,   \* main's blink_chunks: Unset, None or Some(list)
    video_calls,    \* the calls of generate_video: [lip, blink]
    error           \* the uncaught exception that ended the run, or NoError

vars == <<entry, pc, args_audio, audio, files, converted, rhubarb_calls, exit_code,
          sync, frames, chunks, lips, lip_chunks, blink, audio_duration,
          min_wait, max_wait, duration, wait, draws, bchunks, blinks, blink_chunks, video_calls, error>>

(***************************************************************************)
(* Bounds of the model.                                                    *)
(***************************************************************************)
SubFrame == 2       \* ticks per video frame
MaxFrames == 3      \* rows of aligner output, run_rhubarb called directly
MainFrames == 2     \* rows of aligner output, in a run of main
MaxD == 16          \* audio duration in ticks, run_blink called directly
MaxWait == 4        \* min_wait and max_wait in ticks, run_blink called directly
MainD == 2          \* audio duration in ticks, in a run of main

(***************************************************************************)
(* Constants of the program.                                               *)
(***************************************************************************)
FPS == 24
Frame == SubFrame                   \* 1 / 24
Second == FPS * SubFrame
DefaultMinWait == 2 * Second        \* min_wait: float = 2.0
DefaultMaxWait == 4 * Second        \* max_wait: float = 4.0

WavExt == <<".", "w", "a", "v">>
OggExt == <<".", "o", "g", "g">>
Mp3Ext == <<".", "m", "p", "3">>

\* str.endswith
EndsWith(s, suffix) ==
    /\ Len(s) >= Len(suffix)
    /\ SubSeq(s, Len(s) - Len(suffix) + 1, Len(s)) = suffix

\* Optional values
Unset == [some |-> FALSE, set |-> FALSE, val |-> <<>>]
None == [some |-> FALSE, set |-> TRUE, val |-> <<>>]
Some(v) == [some |-> TRUE, set |-> TRUE, val |-> v]

NoError == [type |-> "None", arg |-> "", in |-> ""]
Raise(t, a, f) == [type |-> t, arg |-> a, in |-> f]

(***************************************************************************)
(* The environment: audio paths, aligner output, mapping files.            *)
(***************************************************************************)
AudioPaths ==
    { <<"a">> \o WavExt, <<"a">> \o OggExt, <<"a">> \o Mp3Ext,
      <<"a">> \o WavExt \o Mp3Ext, <<"a", ".", "W", "A", "V">>,
      <<"w", "a", "v">>, WavExt, <<>> }
MainAudioPaths == { <<"a">> \o WavExt, <<"a">> \o Mp3Ext }

PhonemeLabels == {"A", "X"}
BlinkLabels == <<"A", "B", "C">>

\* A field that float() accepts, and one it rejects.
Num(t) == <<"num", t>>
Txt == <<"txt", 0>>

SeqsUpTo(S, n) == UNION { [1..k -> S] : k \in 0..n }

GoodRows(n) == { <<Num(t), l>> : t \in 0..n, l \in PhonemeLabels }
BadRows == { <<Txt, "A">>, <<Num(0)>>, <<Num(0), "A", "A">>, <<>> }
\* What the aligner may print: up to n well-formed rows, or a malformed row
\* with at most one well-formed row before or after it.
AlignerOutputs(n) ==
    SeqsUpTo(GoodRows(n), n)
        \cup { p \o <<b>> : p \in SeqsUpTo(GoodRows(n), 1), b \in BadRows }
        \cup { <<b>> \o p : p \in SeqsUpTo(GoodRows(n), 1), b \in BadRows }

\* A mapping file holds one row (name, file) for each name of a set; the
\* dict built from it maps the name to os.path.join(parent, file).
Joined == [l \in {"A", "B", "C", "X"} |->
             CASE l = "A" -> "dir/a.png" [] l = "B" -> "dir/b.png"
               [] l = "C" -> "dir/c.png" [] l = "X" -> "dir/x.png"]
LoadMapping(names) == [name \in names |-> Joined[name]]
LipsFiles == SUBSET PhonemeLabels
BlinkFiles == SUBSET {"A", "B", "C"}

(***************************************************************************)
(* run_rhubarb                                                             *)
(***************************************************************************)
NeedsConvert_WavOnly(a) == ~EndsWith(a, WavExt)
\* line 47
NeedsConvert(a) == ~EndsWith(a, WavExt) /\ ~EndsWith(a, OggExt)

\* for time, name in rd: frames.append((float(time), name))
RowOk(row) == Len(row) = 2 /\ row[1][1] = "num"
CanParse(out) == \A i \in 1..Len(out) : RowOk(out[i])
ParseFrames(out) == [i \in 1..Len(out) |-> <<out[i][1][2], out[i][2]>>]

BuildChunks_NextName(fr) ==
    IF Len(fr) < 2 THEN <<>>
    ELSE [i \in 1..(Len(fr) - 1) |-> <<fr[i + 1][2], fr[i + 1][1] - fr[i][1]>>]
\* lines 71-77
BuildChunks(fr) ==
    IF Len(fr) < 2 THEN <<>>
    ELSE [i \in 1..(Len(fr) - 1) |-> <<fr[i][2], fr[i + 1][1] - fr[i][1]>>]

\* for i, (name, duration) in enumerate(chunks): chunks[i] = (d[name], duration)
\* The index of the first chunk whose name the dict lacks, 0 when there is none.
FirstMissing(ch, d) ==
    LET bad == { i \in 1..Len(ch) : ch[i][1] \notin DOMAIN d }
    IN IF bad = {} THEN 0 ELSE CHOOSE i \in bad : \A j \in bad : i <= j
\* The list with the chunks before index k replaced.
Replaced(ch, d, k) ==
    [i \in 1..Len(ch) |-> IF i < k THEN <<d[ch[i][1]], ch[i][2]>> ELSE ch[i]]

Abort(e) == pc' = "aborted" /\ error' = e

RhubarbReturn(v) ==
    /\ lip_chunks' = v
    /\ pc' = IF entry = "main" THEN "assert" ELSE "returned"

UNCH_blink == UNCHANGED <<blink, audio_duration, min_wait, max_wait, duration, wait, draws, bchunks,
                          blinks, blink_chunks>>

\* line 47 false: the path ends in .wav or .ogg
RhubarbKeep ==
    /\ pc = "rhubarb"
    /\ ~NeedsConvert(audio)
    /\ pc' = "rhubarb_run"
    /\ UNCHANGED <<entry, args_audio, audio, files, converted, rhubarb_calls, exit_code,
                   sync, frames, chunks, lips, lip_chunks, video_calls, error>>
    /\ UNCH_blink

\* lines 47-50; ffmpeg's run() raises ffmpeg.Error when the transcode fails
RhubarbConvert ==
    /\ pc = "rhubarb"
    /\ NeedsConvert(audio)
    /\ \E ok \in BOOLEAN :
         IF ok
         THEN /\ converted' = Append(converted, <<audio, audio \o WavExt>>)
              /\ files' = files \cup { <<"wav", audio \o WavExt>> }
              /\ audio' = audio \o WavExt
              /\ pc' = "rhubarb_run"
              /\ UNCHANGED error
         ELSE /\ Abort(Raise("ffmpeg.Error", "", "run_rhubarb"))
              /\ UNCHANGED <<converted, files, audio>>
    /\ UNCHANGED <<entry, args_audio, rhubarb_calls, exit_code,
                   sync, frames, chunks, lips, lip_chunks, video_calls>>
    /\ UNCH_blink

\* lines 52-64
RhubarbRun(outputs) ==
    /\ pc = "rhubarb_run"
    /\ rhubarb_calls' = Append(rhubarb_calls, audio)
    /\ \E code \in {0, 1} :
         /\ exit_code' = code
         /\ IF code = 0
            THEN /\ \E out \in outputs : sync' = out
                 /\ pc' = "rhubarb_parse"
                 /\ UNCHANGED lip_chunks
            ELSE /\ RhubarbReturn(None)
                 /\ UNCHANGED sync
    /\ UNCHANGED <<entry, args_audio, audio, files, converted,
                   frames, chunks, lips, video_calls, error>>
    /\ UNCH_blink

\* lines 66-69
RhubarbParse ==
    /\ pc = "rhubarb_parse"
    /\ IF CanParse(sync)
       THEN /\ frames' = ParseFrames(sync)
            /\ pc' = "rhubarb_chunks"
            /\ UNCHANGED error
       ELSE /\ Abort(Raise("ValueError", "", "run_rhubarb"))
            /\ UNCHANGED frames
    /\ UNCHANGED <<entry, args_audio, audio, files, converted, rhubarb_calls, exit_code,
                   sync, chunks, lips, lip_chunks, video_calls>>
    /\ UNCH_blink

\* lines 71-77
RhubarbChunks ==
    /\ pc = "rhubarb_chunks"
    /\ chunks' = BuildChunks(frames)
    /\ pc' = "rhubarb_lips"
    /\ UNCHANGED <<entry, args_audio, audio, files, converted, rhubarb_calls, exit_code,
                   sync, frames, lips, lip_chunks, video_calls, error>>
    /\ UNCH_blink

\* lines 79-84
RhubarbLips ==
    /\ pc = "rhubarb_lips"
    /\ \E names \in LipsFiles : lips' = LoadMapping(names)
    /\ pc' = "rhubarb_lookup"
    /\ UNCHANGED <<entry, args_audio, audio, files, converted, rhubarb_calls, exit_code,
                   sync, frames, chunks, lip_chunks, video_calls, error>>
    /\ UNCH_blink

\* as if the loop read lips.get(name)
RhubarbLookup_Get ==
    /\ pc = "rhubarb_lookup"
    /\ chunks' = [i \in 1..Len(chunks) |->
                    <<IF chunks[i][1] \in DOMAIN lips THEN lips[chunks[i][1]] ELSE "None",
                      chunks[i][2]>>]
    /\ RhubarbReturn(Some(chunks'))
    /\ UNCHANGED <<entry, args_audio, audio, files, converted, rhubarb_calls, exit_code,
                   sync, frames, lips, video_calls, error>>
    /\ UNCH_blink

\* lines 86-89; lips[name] raises KeyError(name)
RhubarbLookup ==
    /\ pc = "rhubarb_lookup"
    /\ LET k == FirstMissing(chunks, lips) IN
         IF k = 0
         THEN /\ chunks' = Replaced(chunks, lips, Len(chunks) + 1)
              /\ RhubarbReturn(Some(chunks'))
              /\ UNCHANGED error
         ELSE /\ chunks' = Replaced(chunks, lips, k)
              /\ Abort(Raise("KeyError", chunks[k][1], "run_rhubarb"))
              /\ UNCHANGED lip_chunks
    /\ UNCHANGED <<entry, args_audio, audio, files, converted, rhubarb_calls, exit_code,
                   sync, frames, lips, video_calls>>
    /\ UNCH_blink

(***************************************************************************)
(* run_blink                                                               *)
(***************************************************************************)
LoopGuard_Inclusive(d) == d >= 0
\* line 124: while duration > 0
LoopGuard(d) == d > 0

Clamp_Absent(w, d) == w
\* lines 126-127
Clamp(w, d) == IF w > d THEN d ELSE w

Cycle_NoClosed(w) == << <<"A", w>>, <<"B", Frame>> >>
\* line 129: [("A", wait), ("B", 1 / 24), ("C", 1 / 24)]
Cycle(w) == << <<"A", w>>, <<"B", Frame>>, <<"C", Frame>> >>

CycleCost_WaitOnly(w) == w
\* line 130: wait + 2 / 24
CycleCost(w) == w + 2 * Frame

BlinkReturn(v) ==
    /\ blink_chunks' = v
    /\ pc' = IF entry = "main" THEN "video" ELSE "returned"

UNCH_rhubarb == UNCHANGED <<args_audio, audio, converted, rhubarb_calls, exit_code,
                            sync, frames, chunks, lips, lip_chunks>>

\* lines 118-119
BlinkNone ==
    /\ pc = "blink"
    /\ blink = "None"
    /\ BlinkReturn(None)
    /\ UNCHANGED <<entry, files, blink, audio_duration, min_wait, max_wait, duration,
                   wait, draws, bchunks, blinks, video_calls, error>>
    /\ UNCH_rhubarb

\* line 121; ffmpeg.probe raises ffmpeg.Error when ffprobe fails
BlinkProbe ==
    /\ pc = "blink"
    /\ blink # "None"
    /\ \E ok \in BOOLEAN :
         IF ok
         THEN /\ duration' = audio_duration
              /\ pc' = "blink_loop"
              /\ UNCHANGED error
         ELSE /\ Abort(Raise("ffmpeg.Error", "", "run_blink"))
              /\ UNCHANGED duration
    /\ UNCHANGED <<entry, files, blink, audio_duration, min_wait, max_wait,
                   wait, draws, bchunks, blinks, blink_chunks, video_calls>>
    /\ UNCH_rhubarb

\* lines 124-125: the loop is entered and random.uniform draws a wait
BlinkDraw ==
    /\ pc = "blink_loop"
    /\ LoopGuard(duration)
    /\ \E w \in min_wait..max_wait : wait' = w
    /\ draws' = draws + 1
    /\ pc' = "blink_cycle"
    /\ UNCHANGED <<entry, files, blink, audio_duration, min_wait, max_wait, duration,
                   bchunks, blinks, blink_chunks, video_calls, error>>
    /\ UNCH_rhubarb

\* lines 126-130
BlinkCycle ==
    /\ pc = "blink_cycle"
    /\ wait' = Clamp(wait, duration)
    /\ bchunks' = bchunks \o Cycle(wait')
    /\ duration' = duration - CycleCost(wait')
    /\ pc' = "blink_loop"
    /\ UNCHANGED <<entry, files, blink, audio_duration, min_wait, max_wait,
                   draws, blinks, blink_chunks, video_calls, error>>
    /\ UNCH_rhubarb

\* line 124 false, then lines 132-137
BlinkBlinks ==
    /\ pc = "blink_loop"
    /\ ~LoopGuard(duration)
    /\ \E names \in BlinkFiles : blinks' = LoadMapping(names)
    /\ pc' = "blink_lookup"
    /\ UNCHANGED <<entry, files, blink, audio_duration, min_wait, max_wait, duration,
                   wait, draws, bchunks, blink_chunks, video_calls, error>>
    /\ UNCH_rhubarb

\* lines 139-142; blinks[name] raises KeyError(name)
BlinkLookup ==
    /\ pc = "blink_lookup"
    /\ LET k == FirstMissing(bchunks, blinks) IN
         IF k = 0
         THEN /\ bchunks' = Replaced(bchunks, blinks, Len(bchunks) + 1)
              /\ BlinkReturn(Some(bchunks'))
              /\ UNCHANGED error
         ELSE /\ bchunks' = Replaced(bchunks, blinks, k)
              /\ Abort(Raise("KeyError", bchunks[k][1], "run_blink"))
              /\ UNCHANGED blink_chunks
    /\ UNCHANGED <<entry, files, blink, audio_duration, min_wait, max_wait, duration,
                   wait, draws, blinks, video_calls>>
    /\ UNCH_rhubarb

(***************************************************************************)
(* main and generate_video                                                 *)
(***************************************************************************)
OutputPath == <<"o", "u", "t">>

\* line 269: lip_chunks = run_rhubarb(args.audio, args.lipsync)
MainStart ==
    /\ pc = "main"
    /\ audio' = args_audio
    /\ pc' = "rhubarb"
    /\ UNCHANGED <<entry, args_audio, files, converted, rhubarb_calls, exit_code,
                   sync, frames, chunks, lips, lip_chunks, video_calls, error>>
    /\ UNCH_blink

\* as if line 270 were missing
MainAssert_Absent ==
    /\ pc = "assert"
    /\ pc' = "blink"
    /\ UNCHANGED <<entry, files, video_calls, error>>
    /\ UNCH_rhubarb
    /\ UNCH_blink

\* line 270: assert lip_chunks is not None
MainAssert ==
    /\ pc = "assert"
    /\ IF lip_chunks = None
       THEN Abort(Raise("AssertionError", "", "main"))
       ELSE pc' = "blink" /\ UNCHANGED error
    /\ UNCHANGED <<entry, files, video_calls>>
    /\ UNCH_rhubarb
    /\ UNCH_blink

\* lines 145-195, called at line 274; ffmpeg's run() writes the output file or
\* raises ffmpeg.Error
GenerateVideo ==
    /\ pc = "video"
    /\ video_calls' = Append(video_calls, [lip |-> lip_chunks, blink |-> blink_chunks])
    /\ \E ok \in BOOLEAN :
         IF ok
         THEN /\ files' = files \cup { <<"video", OutputPath>> }
              /\ pc' = "done"
              /\ UNCHANGED error
         ELSE /\ Abort(Raise("ffmpeg.Error", "", "generate_video"))
              /\ UNCHANGED files
    /\ UNCHANGED entry
    /\ UNCH_rhubarb
    /\ UNCH_blink

(***************************************************************************)
(* Specifications                                                          *)
(***************************************************************************)
InitState(e, p, a, b, d, mn, mx) ==
    /\ entry = e
    /\ pc = p
    /\ args_audio = a
    /\ audio = IF e = "run_rhubarb" THEN a ELSE <<>>
    /\ files = {}
    /\ converted = <<>>
    /\ rhubarb_calls = <<>>
    /\ exit_code = -1
    /\ sync = <<>>
    /\ frames = <<>>
    /\ chunks = <<>>
    /\ lips = <<>>
    /\ lip_chunks = Unset
    /\ blink = b
    /\ audio_duration = d
    /\ min_wait = mn
    /\ max_wait = mx
    /\ duration = 0
    /\ wait = 0
    /\ draws = 0
    /\ bchunks = <<>>
    /\ blinks = <<>>
    /\ blink_chunks = Unset
    /\ video_calls = <<>>
    /\ error = NoError

\* A run of main: run_blink is called with its default waits (line 272).
Init ==
    \E a \in MainAudioPaths, b \in {"None", "blink.csv"}, d \in 0..MainD :
        InitState("main", "main", a, b, d, DefaultMinWait, DefaultMaxWait)

Next ==
    \/ MainStart
    \/ RhubarbKeep
    \/ RhubarbConvert
    \/ RhubarbRun(AlignerOutputs(MainFrames))
    \/ RhubarbParse
    \/ RhubarbChunks
    \/ RhubarbLips
    \/ RhubarbLookup
    \/ MainAssert
    \/ BlinkNone
    \/ BlinkProbe
    \/ BlinkDraw
    \/ BlinkCycle
    \/ BlinkBlinks
    \/ BlinkLookup
    \/ GenerateVideo

Spec == Init /\ [][Next]_vars

\* run_rhubarb called on its own.
InitRhubarb ==
    \E a \in AudioPaths :
        InitState("run_rhubarb", "rhubarb", a, "None", 0, DefaultMinWait, DefaultMaxWait)

NextRhubarb ==
    \/ RhubarbKeep
    \/ RhubarbConvert
    \/ RhubarbRun(AlignerOutputs(MaxFrames))
    \/ RhubarbParse
    \/ RhubarbChunks
    \/ RhubarbLips
    \/ RhubarbLookup

SpecRhubarb == InitRhubarb /\ [][NextRhubarb]_vars

\* run_blink called on its own, with waits 0 < min_wait <= max_wait.
BlinkInputs ==
    { <<d, mn, mx>> : d \in (-Frame)..MaxD, mn \in 1..MaxWait, mx \in 1..MaxWait }
        \cup { <<5 * Second, 2 * Second, 2 * Second>>,
               <<3 * Second, DefaultMinWait, DefaultMaxWait>> }

InitBlink ==
    \E in \in BlinkInputs, b \in {"None", "blink.csv"} :
        /\ in[2] <= in[3]
        /\ InitState("run_blink", "blink", <<"a">> \o WavExt, b, in[1], in[2], in[3])

NextBlink ==
    \/ BlinkNone
    \/ BlinkProbe
    \/ BlinkDraw
    \/ BlinkCycle
    \/ BlinkBlinks
    \/ BlinkLookup

SpecBlink == InitBlink /\ [][NextBlink]_vars

\* The interpreter runs the loop and the statements after it without pause.
FairSpecBlink == InitBlink /\ [][NextBlink]_vars /\ WF_vars(NextBlink)

(***************************************************************************)
(* Properties                                                              *)
(***************************************************************************)
RECURSIVE SumDur(_)
SumDur(ch) == IF ch = <<>> THEN 0 ELSE ch[1][2] + SumDur(Tail(ch))

HasAudioExt(p) == EndsWith(p, WavExt) \/ EndsWith(p, OggExt)

\* The aligner printed n well-formed rows with strictly increasing timestamps.
Stamp(i) == sync[i][1][2]
AlignedFrames ==
    /\ exit_code = 0
    /\ \A i \in 1..Len(sync) : Len(sync[i]) = 2 /\ sync[i][1][1] = "num"
    /\ \A i \in 1..(Len(sync) - 1) : Stamp(i) < Stamp(i + 1)
Intervals == IF Len(sync) >= 2 THEN Len(sync) - 1 ELSE 0

\* C1: for an aligner output of n frames with strictly increasing timestamps the
\* phoneme timeline has n-1 intervals (none, and no error, when n is 0 or 1);
\* interval i has the label of frame i and the positive duration
\* timestamp[i+1] - timestamp[i]; the last frame's label makes no interval.
C1_PhonemeTimeline ==
    AlignedFrames =>
        /\ pc \in {"rhubarb_lips", "rhubarb_lookup"} =>
             /\ Len(chunks) = Intervals
             /\ error = NoError
             /\ \A i \in 1..Len(chunks) :
                  /\ chunks[i][1] = sync[i][2]
                  /\ chunks[i][2] = Stamp(i + 1) - Stamp(i)
                  /\ chunks[i][2] > 0
        /\ pc = "returned" =>
             /\ lip_chunks.some
             /\ Len(lip_chunks.val) = Intervals
             /\ \A i \in 1..Len(lip_chunks.val) :
                  /\ lip_chunks.val[i][1] = lips[sync[i][2]]
                  /\ lip_chunks.val[i][2] = Stamp(i + 1) - Stamp(i)
                  /\ lip_chunks.val[i][2] > 0
        /\ pc = "aborted" => error.type = "KeyError" /\ Len(sync) >= 2

C1_Witness ==
    /\ AlignedFrames
    /\ pc = "returned"
    /\ Len(sync) = 3
    /\ sync[1][2] # sync[2][2]
    /\ Len(lip_chunks.val) = 2
    /\ lip_chunks.val[2][2] > lip_chunks.val[1][2]

\* C8: the aligner is only invoked on a path ending in .wav or .ogg; a path with
\* another ending is first transcoded to <audio>.wav and the aligner runs on the
\* converted file; a path ending in .wav or .ogg is not transcoded and the
\* aligner runs on it.
C8_AlignerInput ==
    /\ Len(rhubarb_calls) <= 1
    /\ \A i \in 1..Len(rhubarb_calls) :
         /\ HasAudioExt(rhubarb_calls[i])
         /\ IF HasAudioExt(args_audio)
            THEN rhubarb_calls[i] = args_audio
            ELSE /\ rhubarb_calls[i] = args_audio \o WavExt
                 /\ converted = << <<args_audio, args_audio \o WavExt>> >>
                 /\ <<"wav", args_audio \o WavExt>> \in files
    /\ HasAudioExt(args_audio) => converted = <<>> /\ files = {}

C8_Witness ==
    /\ args_audio = <<"a">> \o WavExt \o Mp3Ext
    /\ rhubarb_calls = << args_audio \o WavExt >>
    /\ pc = "returned"

\* The aligner exited non-zero, or printed rows that are not (float, string).
Row2(i) == Len(sync[i]) = 2 /\ sync[i][1][1] = "num"
AlignmentFailed ==
    \/ exit_code = 1
    \/ exit_code = 0 /\ \E i \in 1..Len(sync) : ~Row2(i)

\* C2: after the aligner exits non-zero or prints unparsable rows the run ends
\* in an exception: the aligner is not run again, generate_video is never
\* invoked and no output video is written.
C2_AlignmentFailureAborts ==
    AlignmentFailed =>
        /\ Len(rhubarb_calls) = 1
        /\ video_calls = <<>>
        /\ <<"video", OutputPath>> \notin files
        /\ pc \in {"rhubarb_parse", "assert", "aborted"}
        /\ pc = "rhubarb_parse" => exit_code = 0
        /\ pc = "assert" => exit_code = 1 /\ lip_chunks = None
        /\ pc = "aborted" =>
             error = IF exit_code = 1
                     THEN Raise("AssertionError", "", "main")
                     ELSE Raise("ValueError", "", "run_rhubarb")

C2_Witness ==
    /\ exit_code = 1
    /\ pc = "aborted"
    /\ error.type = "AssertionError"
    /\ rhubarb_calls = << args_audio \o WavExt >>

\* C3: generate_video is never invoked with an empty lip timeline (an aligner
\* output of 0 or 1 frames aborts the run instead).
C3_NoVideoOfEmptyTimeline ==
    \A i \in 1..Len(video_calls) : video_calls[i].lip # Some(<<>>)

\* The first name of a list that a dict lacks is the one at index i.
FirstLacking(ch, d, i) ==
    /\ i \in 1..Len(ch)
    /\ ch[i][1] \notin DOMAIN d
    /\ \A j \in 1..(i - 1) : ch[j][1] \in DOMAIN d
Images(d) == { d[n] : n \in DOMAIN d }
Resolved(opt, d) ==
    opt.some /\ \A i \in 1..Len(opt.val) : opt.val[i][1] \in Images(d)

C4_Invariant ==
    /\ \A i \in 1..Len(video_calls) :
         /\ Resolved(video_calls[i].lip, lips)
         /\ video_calls[i].blink = None \/ Resolved(video_calls[i].blink, blinks)
    /\ error.type = "KeyError" =>
         /\ pc = "aborted"
         /\ video_calls = <<>>
         /\ <<"video", OutputPath>> \notin files
         /\ error.arg \notin DOMAIN (IF error.in = "run_rhubarb" THEN lips ELSE blinks)
C4_Step ==
    /\ pc = "rhubarb_lookup" =>
         \A i \in 1..Len(chunks) :
             FirstLacking(chunks, lips, i) =>
                 /\ pc' = "aborted"
                 /\ error' = Raise("KeyError", chunks[i][1], "run_rhubarb")
    /\ pc = "blink_lookup" =>
         \A i \in 1..Len(bchunks) :
             FirstLacking(bchunks, blinks, i) =>
                 /\ pc' = "aborted"
                 /\ error' = Raise("KeyError", bchunks[i][1], "run_blink")

\* C4: when a label of the phoneme timeline, or of the blink timeline, is not
\* in its mapping, the lookup raises KeyError naming the first such label and the
\* run ends before generate_video is invoked; every interval passed to
\* generate_video carries an image of the mapping.
C4_MissingLabelAborts == [](C4_Invariant) /\ [][C4_Step]_vars

C4_Witness ==
    /\ pc = "aborted"
    /\ error = Raise("KeyError", "X", "run_rhubarb")
    /\ DOMAIN lips = {"A"}
    /\ Len(chunks) = 1

\* run_blink left its loop: the blink timeline is complete.
BlinkBuilt == pc = "blink_lookup" \/ (pc = "returned" /\ blink_chunks.some)
Abs(x) == IF x < 0 THEN -x ELSE x
Cycles == Len(bchunks) \div 3
Open(k) == bchunks[3 * k - 2][2]

\* C5: for D > 0 the durations of the blink timeline sum to at least
\* D - (max_wait + 2/24), and the sum differs from D by at most max_wait + 2/24.
C5_BlinkCoversAudio ==
    (BlinkBuilt /\ audio_duration > 0) =>
        /\ SumDur(bchunks) >= audio_duration - (max_wait + 2 * Frame)
        /\ Abs(SumDur(bchunks) - audio_duration) <= max_wait + 2 * Frame
        /\ pc = "returned" => SumDur(blink_chunks.val) = SumDur(bchunks)

C5_Witness ==
    /\ pc = "returned"
    /\ blink_chunks.some
    /\ audio_duration > 0
    /\ Cycles >= 2
    /\ SumDur(blink_chunks.val) = audio_duration + 2 * Frame

\* The phase at position i of a timeline of whole cycles.
PhaseAt(i) == BlinkLabels[((i - 1) % 3) + 1]

\* C6: the blink timeline is a whole number of cycles open, closing, closed; the
\* closing and the closed interval last one frame each.
C6_WholeCycles ==
    /\ Len(bchunks) % 3 = 0
    /\ \A i \in 1..Len(bchunks) :
         /\ bchunks[i][1] \in {PhaseAt(i), Joined[PhaseAt(i)]}
         /\ (i % 3) # 1 => bchunks[i][2] = Frame
    /\ pc \in {"blink_loop", "blink_cycle", "blink_lookup"} =>
         \A i \in 1..Len(bchunks) : bchunks[i][1] = PhaseAt(i)
    /\ (pc = "returned" /\ blink_chunks.some) =>
         /\ blink_chunks.val = bchunks
         /\ \A i \in 1..Len(bchunks) : bchunks[i][1] = blinks[PhaseAt(i)]

C6_Witness ==
    /\ pc = "returned"
    /\ blink_chunks.some
    /\ Len(blink_chunks.val) = 6
    /\ blink_chunks.val[4][2] < min_wait

\* C7: for D <= 0, with a blink mapping given, the blink timeline is empty: no
\* cycle is emitted and random.uniform is never called.
C7_NoBlinkWithoutAudio ==
    (audio_duration <= 0 /\ blink # "None") =>
        /\ bchunks = <<>>
        /\ draws = 0
        /\ pc \in {"blink", "blink_loop", "blink_lookup", "returned", "aborted"}
        /\ pc = "returned" => blink_chunks = Some(<<>>)
        /\ pc = "aborted" => error = Raise("ffmpeg.Error", "", "run_blink")

C7_Witness ==
    /\ pc = "returned"
    /\ audio_duration = 0
    /\ blink # "None"
    /\ blink_chunks = Some(<<>>)

C9_Invariant ==
    audio_duration > 0 =>
        /\ \A k \in 1..Cycles : Open(k) > 0 /\ Open(k) <= max_wait
        /\ \A k \in 1..(Cycles - 1) : Open(k) >= min_wait
        /\ (BlinkBuilt /\ audio_duration = 5 * Second /\ min_wait = 2 * Second
               /\ max_wait = 2 * Second) =>
             /\ Cycles = 3
             /\ Open(1) = 2 * Second
             /\ Open(2) = 2 * Second
             /\ Open(3) = 5 * Second - 2 * (2 * Second + 2 * Frame)
C9_Step ==
    (pc = "blink_cycle" /\ pc' = "blink_loop") =>
        LET open == bchunks'[Len(bchunks) + 1][2] IN
        /\ open = IF wait > duration THEN duration ELSE wait
        /\ open # wait => wait > duration /\ duration' <= 0

\* C9: for D > 0 every open duration is positive and at most max_wait; only the
\* open interval of the last cycle can be shorter than min_wait; a wait is
\* clamped only when the draw exceeds the remaining duration, then it equals the
\* remaining duration and its cycle is the last one (D = 5 s with both waits 2 s:
\* opens of 2 s, 2 s and 5 - 2 * (2 + 2/24) s).
C9_OpenDurations == [](C9_Invariant) /\ [][C9_Step]_vars

C9_Witness ==
    /\ pc = "returned"
    /\ blink_chunks.some
    /\ audio_duration = 5 * Second
    /\ min_wait = 2 * Second
    /\ Cycles = 3
    /\ blink_chunks.val[7][2] = 5 * Second - 2 * (2 * Second + 2 * Frame)

\* The duration accumulated by the first k cycles.
Accumulated(k) == SumDur(SubSeq(bchunks, 1, 3 * k))

\* C10: blink generation terminates; a cycle is started only while the
\* accumulated duration is below D, and the loop is left at the first cycle
\* after which the accumulated duration has reached D.
C10_StopsAtDuration ==
    /\ <>(pc \in {"returned", "aborted"})
    /\ [](pc = "blink_cycle" => Accumulated(Cycles) < audio_duration)
    /\ [](\A k \in 0..(Cycles - 1) : Accumulated(k) < audio_duration)
    /\ [](BlinkBuilt => Accumulated(Cycles) >= audio_duration)

C10_Witness ==
    /\ pc = "returned"
    /\ blink_chunks.some
    /\ Cycles = 3
    /\ Open(3) >= min_wait
    /\ Accumulated(3) = audio_duration

====
